---- MODULE Spec2Model ----
(***************************************************************************)
(* Model of the BlueT Eddystone-EID beacon tracker                         *)
(* (homeassistant/components/bluet/beacon.py, class BlueTDevice).          *)
(*                                                                         *)
(* A 32-bit counter (np.uint32) is kept at its full width as two 16-bit   *)
(* limbs [hi, lo]: value = hi * 65536 + lo.  hi is exactly the "upper 16   *)
(* bits of count" that selects the temporary key.  AES is modelled as an   *)
(* ideal cipher: a ciphertext is the term of its key and plaintext, so two *)
(* EIDs are equal exactly when key, exponent and counter are equal.        *)
(*                                                                         *)
(* Around the device, the integration (__init__.py, bluet.py,              *)
(* config_flow.py): the config flow, the storage collection, the set-up of *)
(* an entry and the coordinator with its periodic update.                  *)
(***************************************************************************)
EXTENDS Integers, Sequences, FiniteSets, TLC

----------------------------------------------------------------------------
(* Bounds of the model *)

\* The clock stops W + MaxPeriods rotation periods (of 2^K seconds) after the
\* construction of the device.
MaxPeriods == 2

\* EID frames are generated for beacon counters at most this many rotation
\* periods beyond either end of the device's active and resync windows,
MaxBeyond == 1

\* and for counters at most W + MaxDrift periods from the constructor's count.
MaxDrift == 1

----------------------------------------------------------------------------
(* 32-bit unsigned arithmetic on limbs *)

Limb == 65536

\* None, for an address (a string) and for last_seen (a time in seconds).
None == "None"
NeverSeen == -1

U32(h, l) == [hi |-> h, lo |-> l]

\* The uint32 of a non-negative integer below 2^31 (np.uint32(n)).
FromInt(n) == U32((n \div Limb) % Limb, n % Limb)

\* a + b without reduction: the carry out of bit 32 is kept in hi.
AddWide(a, b) ==
    LET l == a.lo + b.lo
    IN  U32(a.hi + b.hi + (l \div Limb), l % Limb)

\* a + b modulo 2^32.
Add32(a, b) ==
    LET s == AddWide(a, b)
    IN  U32(s.hi % Limb, s.lo)

\* a - b modulo 2^32.
Sub32(a, b) ==
    LET borrow == IF a.lo < b.lo THEN 1 ELSE 0
    IN  U32((a.hi - b.hi - borrow + 2 * Limb) % Limb, (a.lo - b.lo + Limb) % Limb)

\* Unsigned comparison a > b.
Gt32(a, b) == a.hi > b.hi \/ (a.hi = b.hi /\ a.lo > b.lo)

Pow2(k) == 2 ^ k

\* c & ~((1 << k) - 1) for k in 0..15: only the low limb is touched.
MaskLow(c, k) == U32(c.hi, c.lo - (c.lo % Pow2(k)))

\* count & ~((1 << k) - 1) == count
Aligned(c, k) == MaskLow(c, k) = c

----------------------------------------------------------------------------
(* Key and identifier derivation (ideal AES) *)

\* AES-ECB(identity_key, 11x00 FF 00 00 upper_count): the temporary key of a
\* key epoch is determined by the identity key and the upper 16 bits.
compute_temporary_key(dev, upper_count) ==
    [key |-> dev.identity_key, upper |-> upper_count]

\* First 8 bytes of AES-ECB(temporary_key, 11x00 K count).
compute_eid(dev, count, temporary_key) ==
    [tk |-> temporary_key, k |-> dev.exponent, count |-> count]

compute_eid_at(dev, count) ==
    compute_eid(dev, count, compute_temporary_key(dev, count.hi))

EidEntry(count, eid) == [count |-> count, eid |-> eid]

\* 2**self.exponent as a uint32.
Step(dev) == U32(0, Pow2(dev.exponent))

\* The for loop of _compute_eids that keeps the first temporary key.
RECURSIVE compute_eids_loop_one_key(_, _, _, _, _, _)
compute_eids_loop_one_key(dev, n, tmp_count, upper_count, temporary_key, eids) ==
    IF n = 0 THEN eids
    ELSE LET entry == EidEntry(tmp_count, compute_eid(dev, tmp_count, temporary_key))
         IN  compute_eids_loop_one_key(dev, n - 1, Add32(tmp_count, Step(dev)),
                 upper_count, temporary_key, Append(eids, entry))

\* The body of the for loop of _compute_eids, n iterations still to run.
RECURSIVE compute_eids_loop(_, _, _, _, _, _)
compute_eids_loop(dev, n, tmp_count, upper_count, temporary_key, eids) ==
    IF n = 0 THEN eids
    ELSE LET entry == EidEntry(tmp_count, compute_eid(dev, tmp_count, temporary_key))
             next  == Add32(tmp_count, Step(dev))
             rekey == upper_count # next.hi
         IN  compute_eids_loop(dev, n - 1, next,
                 IF rekey THEN next.hi ELSE upper_count,
                 IF rekey THEN compute_temporary_key(dev, next.hi) ELSE temporary_key,
                 Append(eids, entry))

\* _compute_eids whose first count stops at 0 instead of wrapping.
compute_eids_no_wrap(dev, count) ==
    LET span == FromInt(dev.window_size * Pow2(dev.exponent))
        tmp_count == IF Gt32(span, count) THEN U32(0, 0) ELSE Sub32(count, span)
    IN  compute_eids_loop(dev, 2 * dev.window_size + 1, tmp_count, tmp_count.hi,
                          compute_temporary_key(dev, tmp_count.hi), <<>>)

\* _compute_eids with one entry more on either side.
compute_eids_wide(dev, count) ==
    LET tmp_count == Sub32(count, FromInt((dev.window_size + 1) * Pow2(dev.exponent)))
    IN  compute_eids_loop(dev, 2 * dev.window_size + 3, tmp_count, tmp_count.hi,
                          compute_temporary_key(dev, tmp_count.hi), <<>>)

\* _compute_eids: the window of 2W+1 entries centred on count.
compute_eids(dev, count) ==
    LET tmp_count == Sub32(count, FromInt(dev.window_size * Pow2(dev.exponent)))
    IN  compute_eids_loop(dev, 2 * dev.window_size + 1, tmp_count, tmp_count.hi,
                          compute_temporary_key(dev, tmp_count.hi), <<>>)

----------------------------------------------------------------------------
(* BlueTDevice *)

\* BlueTDevice.__init__ without the masking of count.
NewDeviceUnmasked(identity_key, exponent, count, window_size, last_seen) ==
    LET cfg == [identity_key |-> identity_key, exponent |-> exponent,
                window_size |-> window_size]
    IN  [identity_key |-> identity_key,
         exponent |-> exponent,
         count |-> count,
         window_size |-> window_size,
         last_seen |-> last_seen,
         temperature |-> 0,
         signal_strength |-> 0,
         battery |-> 0,
         advertising_count |-> 0,
         uptime |-> 0,
         new_data_available |-> FALSE,
         resync_eids |-> <<>>,
         address |-> None,
         eids |-> compute_eids(cfg, count)]

\* BlueTDevice.__init__
NewDevice(identity_key, exponent, count, window_size, last_seen) ==
    LET cfg == [identity_key |-> identity_key, exponent |-> exponent,
                window_size |-> window_size]
        masked == MaskLow(count, exponent)
    IN  [identity_key |-> identity_key,
         exponent |-> exponent,
         count |-> masked,
         window_size |-> window_size,
         last_seen |-> last_seen,
         temperature |-> 0,
         signal_strength |-> 0,
         battery |-> 0,
         advertising_count |-> 0,
         uptime |-> 0,
         new_data_available |-> FALSE,
         resync_eids |-> <<>>,
         address |-> None,
         eids |-> compute_eids(cfg, masked)]

\* What a call leaves behind: the device as mutated so far, and the
\* exception that ended the call ("none" when it returned normally).
Returned(dev) == [dev |-> dev, raised |-> "none"]
Raised(dev, exc) == [dev |-> dev, raised |-> exc]

\* while index < self.window_size: insert at the front, pop the last.
RECURSIVE shift_left(_, _, _)
shift_left(dev, eids, index) ==
    IF index < dev.window_size
    THEN LET new_count == Sub32(eids[1].count, Step(dev))
             grown == <<EidEntry(new_count, compute_eid_at(dev, new_count))>> \o eids
         IN  shift_left(dev, SubSeq(grown, 1, Len(grown) - 1), index + 1)
    ELSE eids

\* The second loop of _handle_eid_match with `>=` for `>`.
RECURSIVE shift_right_inclusive(_, _, _)
shift_right_inclusive(dev, eids, index) ==
    IF index >= dev.window_size
    THEN LET new_count == Add32(eids[Len(eids)].count, Step(dev))
             grown == Append(eids, EidEntry(new_count, compute_eid_at(dev, new_count)))
         IN  shift_right_inclusive(dev, Tail(grown), index - 1)
    ELSE eids

\* The second loop of _handle_eid_match as an `if`: a single step.
shift_right_once(dev, eids, index) ==
    IF index > dev.window_size
    THEN LET new_count == Add32(eids[Len(eids)].count, Step(dev))
         IN  Tail(Append(eids, EidEntry(new_count, compute_eid_at(dev, new_count))))
    ELSE eids

\* while index > self.window_size: append at the end, pop the first.
RECURSIVE shift_right(_, _, _)
shift_right(dev, eids, index) ==
    IF index > dev.window_size
    THEN LET new_count == Add32(eids[Len(eids)].count, Step(dev))
             grown == Append(eids, EidEntry(new_count, compute_eid_at(dev, new_count)))
         IN  shift_right(dev, Tail(grown), index - 1)
    ELSE eids

\* _handle_eid_match that does not remember the address of the frame.
handle_eid_match_keeps_address(dev, index, address, now) ==
    IF index >= Len(dev.eids)
    THEN Raised(dev, "IndexError")
    ELSE LET left  == shift_left(dev, dev.eids, index)
             moved == shift_right(dev, left, index)
             seen  == [dev EXCEPT !.last_seen = now, !.eids = moved]
         IN  IF Len(moved) # 2 * dev.window_size + 1
             THEN Raised(seen, "AssertionError")
             ELSE Returned([seen EXCEPT !.count = moved[dev.window_size + 1].count])

\* _handle_eid_match that takes a match for the start of a new sighting and
\* clears new_data_available.
handle_eid_match_clears_new_data(dev, index, address, now) ==
    IF index >= Len(dev.eids)
    THEN Raised(dev, "IndexError")
    ELSE LET left  == shift_left(dev, dev.eids, index)
             moved == shift_right(dev, left, index)
             seen  == [dev EXCEPT !.last_seen = now, !.address = address,
                                  !.eids = moved, !.new_data_available = FALSE]
         IN  IF Len(moved) # 2 * dev.window_size + 1
             THEN Raised(seen, "AssertionError")
             ELSE Returned([seen EXCEPT !.count = moved[dev.window_size + 1].count])

\* _handle_eid_match(index, address); index counts from 0 as in the source.
handle_eid_match(dev, index, address, now) ==
    IF index >= Len(dev.eids)
    THEN \* the debug call reads self._eids[index].count
         Raised(dev, "IndexError")
    ELSE LET left  == shift_left(dev, dev.eids, index)
             moved == shift_right(dev, left, index)
             seen  == [dev EXCEPT !.last_seen = now, !.address = address,
                                  !.eids = moved]
         IN  IF Len(moved) # 2 * dev.window_size + 1
             THEN Raised(seen, "AssertionError")
             ELSE Returned([seen EXCEPT !.count = moved[dev.window_size + 1].count])

\* np.uint32(x) of a float x = count + seconds.  In range it truncates (the
\* model's clock counts whole seconds).  Out of range, x >= 2^32, the C
\* conversion is undefined; the builds in use either reduce modulo 2^32
\* (x86-64) or saturate at 2^32 - 1 (aarch64).
FloatCastOutcomes == {"wrap", "saturate"}

uint32_of_float(wide, cast) ==
    IF wide.hi < Limb THEN wide
    ELSE IF cast = "wrap" THEN U32(wide.hi % Limb, wide.lo)
    ELSE U32(Limb - 1, Limb - 1)

\* self._resync_eids[self.window_size] == expected_count compares an
\* EidEntry object (no __eq__) with a number: never equal.
EntryEqualsCount(entry, expected_count) == FALSE

\* _check_stale_eids that takes an unset last_seen for the start of the clock.
check_stale_eids_unseen_as_epoch(dev, now, cast) ==
    IF dev.window_size >= Len(dev.eids)
    THEN Raised(dev, "IndexError")
    ELSE LET seen == IF dev.last_seen = NeverSeen THEN 0 ELSE dev.last_seen
             sum == AddWide(dev.eids[dev.window_size + 1].count, FromInt(now - seen))
             expected_count == MaskLow(uint32_of_float(sum, cast), dev.exponent)
         IN  IF Gt32(expected_count, dev.eids[Len(dev.eids)].count)
             THEN Returned([dev EXCEPT !.resync_eids = compute_eids(dev, expected_count)])
             ELSE Returned(dev)

\* _check_stale_eids that also moves the counter to the expected count.
check_stale_eids_moves_count(dev, now, cast) ==
    IF dev.last_seen = NeverSeen THEN Returned(dev)
    ELSE IF dev.window_size >= Len(dev.eids)
    THEN Raised(dev, "IndexError")
    ELSE LET sum == AddWide(dev.eids[dev.window_size + 1].count,
                            FromInt(now - dev.last_seen))
             expected_count == MaskLow(uint32_of_float(sum, cast), dev.exponent)
         IN  IF Gt32(expected_count, dev.eids[Len(dev.eids)].count)
             THEN Returned([dev EXCEPT !.count = expected_count,
                                       !.resync_eids = compute_eids(dev, expected_count)])
             ELSE Returned(dev)

\* _check_stale_eids that replaces the active list by the list it builds.
check_stale_eids_discards_active(dev, now, cast) ==
    IF dev.last_seen = NeverSeen THEN Returned(dev)
    ELSE IF dev.window_size >= Len(dev.eids)
    THEN Raised(dev, "IndexError")
    ELSE LET sum == AddWide(dev.eids[dev.window_size + 1].count,
                            FromInt(now - dev.last_seen))
             expected_count == MaskLow(uint32_of_float(sum, cast), dev.exponent)
         IN  IF Gt32(expected_count, dev.eids[Len(dev.eids)].count)
             THEN Returned([dev EXCEPT !.eids = compute_eids(dev, expected_count)])
             ELSE Returned(dev)

\* _check_stale_eids that builds the resync list around the expected count
\* with its low bits left in place.
check_stale_eids_unmasked(dev, now, cast) ==
    IF dev.last_seen = NeverSeen THEN Returned(dev)
    ELSE IF dev.window_size >= Len(dev.eids)
    THEN Raised(dev, "IndexError")
    ELSE LET seconds_since_last_seen == now - dev.last_seen
             sum == AddWide(dev.eids[dev.window_size + 1].count,
                            FromInt(seconds_since_last_seen))
             unmasked == uint32_of_float(sum, cast)
             expected_count == MaskLow(unmasked, dev.exponent)
         IN  IF Gt32(expected_count, dev.eids[Len(dev.eids)].count)
             THEN Returned([dev EXCEPT
                              !.resync_eids = compute_eids(dev, unmasked)])
             ELSE Returned(dev)

\* _check_stale_eids
check_stale_eids(dev, now, cast) ==
    IF dev.last_seen = NeverSeen THEN Returned(dev)
    ELSE IF dev.window_size >= Len(dev.eids)
    THEN \* self._eids[self.window_size] on a list that is too short
         Raised(dev, "IndexError")
    ELSE LET seconds_since_last_seen == now - dev.last_seen
             sum == AddWide(dev.eids[dev.window_size + 1].count,
                            FromInt(seconds_since_last_seen))
             expected_count == MaskLow(uint32_of_float(sum, cast), dev.exponent)
         IN  IF Gt32(expected_count, dev.eids[Len(dev.eids)].count)
             THEN IF /\ Len(dev.resync_eids) > 0
                     /\ EntryEqualsCount(dev.resync_eids[dev.window_size + 1],
                                         expected_count)
                  THEN Returned(dev)
                  ELSE Returned([dev EXCEPT
                                   !.resync_eids = compute_eids(dev, expected_count)])
             ELSE Returned(dev)

\* The indices (from 0) of the entries of a list whose eid is received_eid.
Matches(eids, received_eid) ==
    {i \in 0..(Len(eids) - 1) : eids[i + 1].eid = received_eid}

Min(S) == CHOOSE x \in S : \A y \in S : x <= y

\* The second loop of _process_eid, about to look at index i of the list
\* object `list` it iterates over (the list that was self._resync_eids when
\* the loop began).  The loop has no return after a match, and after the
\* first match self._eids is that same list object, so _handle_eid_match
\* shifts the list under the iteration: eids_is_list says that self._eids is
\* the iterated object, resync_is_list that self._resync_eids is.
RECURSIVE resync_loop(_, _, _, _, _, _, _, _)
resync_loop(dev, list, i, eids_is_list, resync_is_list, received_eid, address, now) ==
    IF i >= Len(list) THEN Returned(dev)
    ELSE IF list[i + 1].eid # received_eid
    THEN resync_loop(dev, list, i + 1, eids_is_list, resync_is_list,
                     received_eid, address, now)
    ELSE LET promoted == [dev EXCEPT !.eids = dev.resync_eids,
                                     !.resync_eids = <<>>]
             res == handle_eid_match(promoted, i, address, now)
         IN  IF res.raised # "none" THEN res
             ELSE resync_loop(res.dev,
                              IF resync_is_list THEN res.dev.eids ELSE list,
                              i + 1, resync_is_list, FALSE,
                              received_eid, address, now)

\* _process_eid that presumes the active window stale as soon as a resync
\* list exists, and searches that list alone.
process_eid_resync_alone(dev, data, address, now, cast) ==
    LET stale == check_stale_eids(dev, now, cast)
    IN  IF stale.raised # "none" THEN stale
        ELSE IF data.len # 10 THEN Raised(stale.dev, "AssertionError")
        ELSE LET sdev == stale.dev
                 received_eid == data.body
                 hits == Matches(sdev.eids, received_eid)
             IN  IF Len(sdev.resync_eids) > 0
                 THEN resync_loop(sdev, sdev.resync_eids, 0, FALSE, TRUE,
                                  received_eid, address, now)
                 ELSE IF hits # {}
                 THEN handle_eid_match(sdev, Min(hits), address, now)
                 ELSE Returned(sdev)

\* _process_eid(data, address)
process_eid(dev, data, address, now, cast) ==
    LET stale == check_stale_eids(dev, now, cast)
    IN  IF stale.raised # "none" THEN stale
        ELSE IF data.len # 10 THEN Raised(stale.dev, "AssertionError")
        ELSE LET sdev == stale.dev
                 received_eid == data.body
                 hits == Matches(sdev.eids, received_eid)
             IN  IF hits # {}
                 THEN handle_eid_match(sdev, Min(hits), address, now)
                 ELSE IF Len(sdev.resync_eids) > 0
                 THEN resync_loop(sdev, sdev.resync_eids, 0, FALSE, TRUE,
                                  received_eid, address, now)
                 ELSE Returned(sdev)

----------------------------------------------------------------------------
(* Encrypted telemetry (ideal AES-EAX) *)

\* The nonce: 4 bytes of count, then the 2 bytes of salt of the packet.
etlm_nonce(count, salt) == [count |-> count, salt |-> salt]

\* Ciphertext of plaintext under (key, nonce): EAX encrypts in counter mode.
eax_encrypt(key, nonce, plaintext) == [key |-> key, nonce |-> nonce, pt |-> plaintext]

\* What decrypting under another key or nonce yields.
GarbledPlaintext == [batt |-> 0, temp |-> 0, adv |-> 0, uptime |-> 0, garbled |-> TRUE]

\* cipher.decrypt(ciphertext), no verification.
eax_decrypt(key, nonce, ciphertext) ==
    IF ciphertext.key = key /\ ciphertext.nonce = nonce
    THEN ciphertext.pt ELSE GarbledPlaintext

\* The full tag of encrypt_and_digest: a MAC over nonce and ciphertext bytes.
\* Re-encrypting the decrypted bytes under the same key and nonce gives the
\* received ciphertext bytes back, so the tag is taken over them.
eax_tag(key, nonce, ciphertext) == [key |-> key, nonce |-> nonce, over |-> ciphertext]

\* tag[0:2]
first_two(tag) == [first2 |-> tag]

\* _process_etlm that stores what it decrypted without comparing the tags.
process_etlm_unverified(dev, data, rssi) ==
    IF data.len # 18 THEN Raised(dev, "AssertionError")
    ELSE LET nonce == etlm_nonce(dev.count, data.body.salt)
             plaintext == eax_decrypt(dev.identity_key, nonce, data.body.ciphertext)
         IN  Returned([dev EXCEPT
                 !.temperature = plaintext.temp,
                 !.battery = plaintext.batt,
                 !.advertising_count = plaintext.adv,
                 !.uptime = plaintext.uptime,
                 !.signal_strength = rssi,
                 !.new_data_available = TRUE])

\* _process_etlm that builds the nonce from the counter of the first entry
\* of the window instead of self.count.
process_etlm_first_entry_count(dev, data, rssi) ==
    IF data.len # 18 THEN Raised(dev, "AssertionError")
    ELSE LET ciphertext == data.body.ciphertext
             nonce == etlm_nonce(dev.eids[1].count, data.body.salt)
             plaintext == eax_decrypt(dev.identity_key, nonce, ciphertext)
             tag == eax_tag(dev.identity_key, nonce, ciphertext)
         IN  IF first_two(tag) # data.body.tag
             THEN Returned(dev)
             ELSE Returned([dev EXCEPT
                     !.temperature = plaintext.temp,
                     !.battery = plaintext.batt,
                     !.advertising_count = plaintext.adv,
                     !.uptime = plaintext.uptime,
                     !.signal_strength = rssi,
                     !.new_data_available = TRUE])

\* _process_etlm(data, rssi).  struct.unpack(">HHII") reads the two
\* temperature bytes as an unsigned number; temperature (temp / 256 in the
\* source) is kept in units of 1/256 degree C.
process_etlm(dev, data, rssi) ==
    IF data.len # 18 THEN Raised(dev, "AssertionError")
    ELSE LET ciphertext == data.body.ciphertext
             nonce == etlm_nonce(dev.count, data.body.salt)
             plaintext == eax_decrypt(dev.identity_key, nonce, ciphertext)
             tag == eax_tag(dev.identity_key, nonce, ciphertext)
         IN  IF first_two(tag) # data.body.tag
             THEN Returned(dev)
             ELSE Returned([dev EXCEPT
                     !.temperature = plaintext.temp,
                     !.battery = plaintext.batt,
                     !.advertising_count = plaintext.adv,
                     !.uptime = plaintext.uptime,
                     !.signal_strength = rssi,
                     !.new_data_available = TRUE])

\* Frame types (first byte of the service data).
FRAME_UID == 0
FRAME_URL == 16
FRAME_TLM == 32
FRAME_EID == 48

\* process_packet that hands a TLM frame on whatever its address.
process_packet_any_address(dev, packet, now, cast) ==
    LET data == packet.service_data
    IN  IF data.len = 0 THEN Raised(dev, "IndexError")
        ELSE IF data.type = FRAME_UID THEN Returned(dev)
        ELSE IF data.type = FRAME_URL THEN Returned(dev)
        ELSE IF data.type = FRAME_TLM
        THEN IF data.len < 2 THEN Raised(dev, "IndexError")
             ELSE IF data.version # 1 THEN Returned(dev)
             ELSE process_etlm(dev, data, packet.rssi)
        ELSE IF data.type = FRAME_EID
        THEN process_eid(dev, data, packet.address, now, cast)
        ELSE Returned(dev)

\* process_packet that hands a TLM frame on while no address is stored.
process_packet_unset_address(dev, packet, now, cast) ==
    LET data == packet.service_data
    IN  IF data.len = 0 THEN Raised(dev, "IndexError")
        ELSE IF data.type = FRAME_UID THEN Returned(dev)
        ELSE IF data.type = FRAME_URL THEN Returned(dev)
        ELSE IF data.type = FRAME_TLM
        THEN IF dev.address = None \/ dev.address = packet.address
             THEN IF data.len < 2 THEN Raised(dev, "IndexError")
                  ELSE IF data.version # 1 THEN Returned(dev)
                  ELSE process_etlm(dev, data, packet.rssi)
             ELSE Returned(dev)
        ELSE IF data.type = FRAME_EID
        THEN process_eid(dev, data, packet.address, now, cast)
        ELSE Returned(dev)

\* process_packet that takes a frame of an unknown type for an EID frame.
process_packet_unknown_as_eid(dev, packet, now, cast) ==
    LET data == packet.service_data
    IN  IF data.len = 0 THEN Raised(dev, "IndexError")
        ELSE IF data.type = FRAME_UID THEN Returned(dev)
        ELSE IF data.type = FRAME_URL THEN Returned(dev)
        ELSE IF data.type = FRAME_TLM
        THEN IF dev.address = packet.address
             THEN IF data.len < 2 THEN Raised(dev, "IndexError")
                  ELSE IF data.version # 1 THEN Returned(dev)
                  ELSE process_etlm(dev, data, packet.rssi)
             ELSE Returned(dev)
        ELSE process_eid(dev, data, packet.address, now, cast)

\* process_packet(packet)
process_packet(dev, packet, now, cast) ==
    LET data == packet.service_data
    IN  IF data.len = 0 THEN Raised(dev, "IndexError")          \* data[0]
        ELSE IF data.type = FRAME_UID THEN Returned(dev)
        ELSE IF data.type = FRAME_URL THEN Returned(dev)
        ELSE IF data.type = FRAME_TLM
        THEN IF dev.address = packet.address
             THEN IF data.len < 2 THEN Raised(dev, "IndexError")  \* data[1]
                  ELSE IF data.version # 1 THEN Returned(dev)
                  ELSE process_etlm(dev, data, packet.rssi)
             ELSE Returned(dev)
        ELSE IF data.type = FRAME_EID
        THEN process_eid(dev, data, packet.address, now, cast)
        ELSE Returned(dev)

----------------------------------------------------------------------------------------------------------------------------------------------------------------------------------------------------------------
(* The environment: configurations, clock and advertising frames *)

VARIABLES
    device,   \* the BlueTDevice
    now,      \* datetime.utcnow(), in whole seconds
    ev,       \* history: the last call, its packet and how it went
    hass      \* the integration around the device: config entries, the
              \* storage collection, the coordinator, and the last call to them

vars == <<device, now, ev, hass>>

\* No integration: the device is driven directly, as in test_beacon.py.
NoHass == [loaded |-> FALSE]

OwnKey == "12345678901234567890123456789012"
OtherKey == "11223344556677889900AABBCCDDEEFF"

\* Configurations <<exponent K, window_size W, count>> given to the
\* constructor: a window across the 2^32 wrap, a window across a change of
\* the upper 16 bits, and the smallest exponent and window.
Configs ==
    {<<15, 2, U32(65535, 65535)>>, <<4, 1, U32(1, 65535)>>, <<0, 1, U32(65535, 65535)>>}

Address1 == "00:11:22:33:44:55"
Address2 == "AA:BB:CC:DD:EE:FF"

\* packet.rssi: the signal strength the receiver measured for the frame.
Rssi(address) == IF address = Address1 THEN -63 ELSE -70

\* c + j * 2^k modulo 2^32, for an integer j of either sign.
Offset(c, j, k) ==
    IF j >= 0 THEN Add32(c, FromInt(j * Pow2(k)))
    ELSE Sub32(c, FromInt((-j) * Pow2(k)))

\* The EID a beacon with this identity key broadcasts at counter c.
BeaconEid(key, k, c) == [tk |-> [key |-> key, upper |-> c.hi], k |-> k, count |-> c]

\* Bytes that are neither an EID nor an ETLM payload of any beacon.
Junk == [junk |-> TRUE]

Data(len, type, version, body) ==
    [len |-> len, type |-> type, version |-> version, body |-> body]

Packet(address, data) ==
    [address |-> address, rssi |-> Rssi(address), service_data |-> data]

\* The beacon counters frames are generated for: at most W + MaxDrift
\* rotation periods from a constructor count.
BeaconCounters(dev) ==
    LET reach == dev.window_size + MaxDrift
    IN  {Offset(MaskLow(cfg[3], dev.exponent), j, dev.exponent) :
            cfg \in {c \in Configs : c[1] = dev.exponent}, j \in (-reach)..reach}

\* The centres of the device's lists.
Centres(dev) ==
    {dev.count} \cup
    (IF Len(dev.resync_eids) > dev.window_size
     THEN {dev.resync_eids[dev.window_size + 1].count} ELSE {})

\* Beacon counters in and just beyond the device's lists.
NearCounters(dev) ==
    LET reach == dev.window_size + MaxBeyond
    IN  {Offset(c, j, dev.exponent) : c \in Centres(dev), j \in (-reach)..reach}
        \cap BeaconCounters(dev)

EidData(dev) ==
    {Data(10, FRAME_EID, 0, BeaconEid(OwnKey, dev.exponent, c)) : c \in NearCounters(dev)}
    \cup {Data(10, FRAME_EID, 0, BeaconEid(OtherKey, dev.exponent, dev.count)),
          Data(9, FRAME_EID, 0, Junk)}

\* The 16 bits a beacon sends for a temperature of t/256 degrees C, as the
\* unsigned number they spell.
TwosComplement16(t) == (t + Limb) % Limb

\* The 12 telemetry bytes as their four big-endian fields: battery in mV,
\* the 16 bits of the 8.8 fixed point temperature, advertising count, uptime.
\* Plaintext1 is 20.5 C; Plaintext2 is -0.5 C.
Plaintext1 == [batt |-> 2953, temp |-> TwosComplement16(5248), adv |-> 46, uptime |-> 408]
Plaintext2 == [batt |-> 2890, temp |-> TwosComplement16(-128), adv |-> 47, uptime |-> 409]

\* The telemetry in the frames received from an address.
PlaintextOf(address) == IF address = Address1 THEN Plaintext1 ELSE Plaintext2

Salt == 1248

\* The ETLM service data a beacon with this key builds at counter c.
BeaconEtlm(key, c, plaintext) ==
    LET nonce == etlm_nonce(c, Salt)
        ciphertext == eax_encrypt(key, nonce, plaintext)
    IN  [ciphertext |-> ciphertext, salt |-> Salt,
         tag |-> first_two(eax_tag(key, nonce, ciphertext))]

\* The TLM frames of the runs that follow the EID windows: one encrypted
\* under another key and one of 17 bytes.  What telemetry does to the device
\* is followed in the telemetry runs, with TelemetryPackets.
TlmData(dev) ==
    {Data(18, FRAME_TLM, 1, BeaconEtlm(OtherKey, dev.count, Plaintext1)),
     Data(17, FRAME_TLM, 1, Junk)}

OtherData ==
    {Data(10, FRAME_UID, 0, Junk), Data(10, FRAME_URL, 0, Junk),
     Data(10, 64, 0, Junk), Data(0, 0, 0, Junk)}

\* The frames that can arrive: everything from the first address, and from
\* the second address the EIDs of the centres.
Packets(dev) ==
    {Packet(Address1, d) : d \in EidData(dev) \cup TlmData(dev) \cup OtherData}
    \cup {Packet(Address2, Data(10, FRAME_EID, 0, BeaconEid(OwnKey, dev.exponent, c))) :
             c \in Centres(dev) \cap BeaconCounters(dev)}

\* The frames of the telemetry runs: from either address the EIDs of the
\* device's counter and of the next one, and every kind of TLM frame, the
\* telemetry in it that of the address.
TelemetryPackets(dev) ==
    {Packet(a, Data(10, FRAME_EID, 0, BeaconEid(OwnKey, dev.exponent, c))) :
        a \in {Address1, Address2},
        c \in {dev.count, Offset(dev.count, 1, dev.exponent)} \cap BeaconCounters(dev)}
    \cup {Packet(a, Data(18, FRAME_TLM, v, BeaconEtlm(key, c, PlaintextOf(a)))) :
             a \in {Address1, Address2}, v \in {0, 1}, key \in {OwnKey, OtherKey},
             c \in {dev.count, Offset(dev.count, -1, dev.exponent)}}
    \cup {Packet(a, Data(len, FRAME_TLM, 1, Junk)) :
             a \in {Address1, Address2}, len \in {1, 17}}

\* The outcomes the float conversion of the stale check can have in a call:
\* a choice only when count + seconds is out of range.
CastsFor(dev, now_) ==
    IF /\ dev.last_seen # NeverSeen
       /\ dev.window_size < Len(dev.eids)
       /\ AddWide(dev.eids[dev.window_size + 1].count,
                  FromInt(now_ - dev.last_seen)).hi >= Limb
    THEN FloatCastOutcomes ELSE {"wrap"}

NoCount == U32(-1, -1)

\* The centre of a list of entries, NoCount when it has none.
Centre(dev, eids) ==
    IF Len(eids) > dev.window_size THEN eids[dev.window_size + 1].count ELSE NoCount

\* How the EID handling of a call went: the centre of the resync list after
\* the stale check, which list held the first match, at which index, and the
\* counter of the matching entry.
eid_search(dev, packet, now_, cast) ==
    LET data == packet.service_data
        stale == check_stale_eids(dev, now_, cast)
        none == [matched |-> "none", index |-> -1, hit |-> NoCount]
    IN  IF data.len = 0 \/ data.type # FRAME_EID
        THEN [stale |-> NoCount] @@ none
        ELSE [stale |-> Centre(dev, stale.dev.resync_eids)] @@
             (IF stale.raised # "none" \/ data.len # 10 THEN none
              ELSE LET a == Matches(stale.dev.eids, data.body)
                       r == Matches(stale.dev.resync_eids, data.body)
                   IN  IF a # {}
                       THEN [matched |-> "active", index |-> Min(a),
                             hit |-> stale.dev.eids[Min(a) + 1].count]
                       ELSE IF r # {}
                       THEN [matched |-> "resync", index |-> Min(r),
                             hit |-> stale.dev.resync_eids[Min(r) + 1].count]
                       ELSE none)

\* The counter of the beacon that built the frame: the counter whose EID an
\* EID frame carries, or the counter under which an encrypted TLM frame was
\* built; NoCount for a frame that no beacon with the device's identity key
\* has built.
sent_count(dev, packet) ==
    LET data == packet.service_data
    IN  IF /\ data.type = FRAME_EID /\ data.len = 10
           /\ data.body.tk.key = dev.identity_key
        THEN data.body.count
        ELSE IF /\ data.type = FRAME_TLM /\ data.len = 18 /\ data.body # Junk
                /\ data.body.ciphertext.key = dev.identity_key
        THEN data.body.ciphertext.nonce.count
        ELSE NoCount

\* Whether the tag of a TLM frame of 18 bytes verifies for the device: the
\* comparison of _process_etlm, whatever the address and the version byte.
etlm_check(dev, packet) ==
    LET data == packet.service_data
    IN  IF data.type # FRAME_TLM \/ data.len # 18 \/ data.body = Junk THEN "none"
        ELSE LET nonce == etlm_nonce(dev.count, data.body.salt)
                 tag == eax_tag(dev.identity_key, nonce, data.body.ciphertext)
             IN  IF first_two(tag) = data.body.tag THEN "verifies" ELSE "fails"

NoCall(op) ==
    [op |-> op, type |-> -1, len |-> -1, version |-> -1, address |-> None,
     raised |-> "none", stale |-> NoCount, matched |-> "none", index |-> -1,
     hit |-> NoCount, sent |-> NoCount, etlm |-> "none", unseen |-> FALSE]

Init ==
    /\ \E cfg \in Configs, ls \in {NeverSeen, 0} :
          device = NewDevice(OwnKey, cfg[1], cfg[3], cfg[2], ls)
    /\ now = 0
    /\ ev = NoCall("init")
    /\ hass = NoHass

Period == Pow2(device.exponent)

\* The clock advances: by a rotation period, by one second less than the
\* W+1 periods after which the window is presumed stale, or to the next
\* period boundary.
TickSteps ==
    {Period, (device.window_size + 1) * Period - 1} \cup
    (IF now % Period # 0 THEN {Period - (now % Period)} ELSE {})

\* Time passes.
Tick ==
    /\ \E delta \in TickSteps :
          /\ delta > 0
          /\ now + delta <= (device.window_size + MaxPeriods) * Period
          /\ now' = now + delta
    /\ ev' = NoCall("tick")
    /\ UNCHANGED <<device, hass>>

\* BlueTCoordinator.update_ble: one of the frames arrives and process_packet
\* runs.
Receive(packets) ==
    \E packet \in packets, cast \in CastsFor(device, now) :
        \E res \in {process_packet(device, packet, now, cast)},
           found \in {eid_search(device, packet, now, cast)} :
            /\ device' = res.dev
            /\ ev' = [op |-> "packet", type |-> packet.service_data.type,
                      len |-> packet.service_data.len,
                      version |-> packet.service_data.version,
                      address |-> packet.address,
                      raised |-> res.raised, stale |-> found.stale,
                      matched |-> found.matched, index |-> found.index,
                      hit |-> found.hit,
                      sent |-> sent_count(device, packet),
                      etlm |-> etlm_check(device, packet),
                      unseen |-> device.last_seen = NeverSeen]
            /\ UNCHANGED <<now, hass>>

ProcessPacket == Receive(Packets(device))

Next == Tick \/ ProcessPacket

Spec == Init /\ [][Next]_vars

\* The telemetry runs: the same device and clock, receiving TelemetryPackets.
ProcessTelemetry == Receive(TelemetryPackets(device))

NextTelemetry == Tick \/ ProcessTelemetry

SpecTelemetry == Init /\ [][NextTelemetry]_vars

----------------------------------------------------------------------------
(* The integration: config flow, storage, set-up and coordinator *)

\* An identity key as the user types it: 32 hexadecimal digits, the letters
\* among them in upper or in lower case.  OwnKey has no letters.
KeyText(key, lower) == [hex |-> key, lower |-> lower /\ key # OwnKey]

\* bytes.fromhex(text): the 16 bytes, whatever the case of the letters.
bytes_fromhex(text) == text.hex

\* datetime.isoformat() and datetime.fromisoformat().
isoformat(t) == [iso |-> t]
fromisoformat(text) == text.iso

\* dict.get(key) for a key the dict does not hold.
Missing == [missing |-> TRUE]

\* What the user submits in the form of the config flow: a key, and the
\* same key typed in lower case.
UserInputs ==
    {[name |-> "Test Device 2", identity_key |-> KeyText(OtherKey, lower),
      exponent |-> 4, window_size |-> 1, count |-> U32(1, 65535)] :
        lower \in BOOLEAN}

\* The texts of the identity keys: the ids of the storage collection.
KeyTexts == {input.identity_key : input \in UserInputs}

\* The config entry the flow manager makes of the result of
\* async_create_entry and the unique id of the flow.
ConfigEntry(unique_id, title, data) ==
    [unique_id |-> unique_id, title |-> title, data |-> data]

\* ConfigFlow.async_step_user(user_input) with the form filled in:
\* async_set_unique_id, _abort_if_unique_id_configured (an entry with the
\* same unique id, compared as text, aborts the flow), async_create_entry.
async_step_user(entries, user_input) ==
    IF \E entry \in entries : entry.unique_id = user_input.identity_key
    THEN [type |-> "abort", reason |-> "already_configured",
          title |-> None, data |-> Missing, entries |-> entries]
    ELSE [type |-> "create_entry", reason |-> "none",
          title |-> user_input.name, data |-> user_input,
          entries |-> entries \cup
              {ConfigEntry(user_input.identity_key, user_input.name, user_input)}]

\* BlueTStorage.async_create_item(data): the item validated by
\* CREATE_SCHEMA is kept under the id _get_suggested_id proposes, the
\* identity key.
async_create_item(data, item) ==
    [data EXCEPT ![item.identity_key] =
        [identity_key |-> item.identity_key, count |-> item.count,
         last_seen |-> Missing]]

\* BlueTStorage.async_update_item(item_id, updates): _update_data merges
\* the update validated by UPDATE_SCHEMA into the item; ItemNotFound for an
\* id the collection does not hold.
async_update_item(data, item_id, updates) ==
    IF data[item_id] = Missing THEN [data |-> data, raised |-> "ItemNotFound"]
    ELSE [data |-> [data EXCEPT ![item_id] =
                       [identity_key |-> data[item_id].identity_key,
                        count |-> updates.count, last_seen |-> updates.last_seen]],
          raised |-> "none"]

\* BlueTCoordinator.__init__
NewCoordinator(entry, dev) ==
    [pc |-> "idle", entry |-> entry, last_saved |-> dev.last_seen]

NoCoordinator == [pc |-> "absent"]

\* The device there is before an entry is set up and after it is unloaded.
NoDevice == [absent |-> TRUE]

\* _async_update_data that saves when the counter has changed.
async_update_data_on_count(coordinator, dev, data, utcnow) ==
    LET item_id == coordinator.entry.data.identity_key
    IN  IF data[item_id] = Missing \/ dev.count # data[item_id].count
        THEN LET new_data == [count |-> dev.count, last_seen |-> isoformat(utcnow)]
                 res == async_update_item(data, item_id, new_data)
             IN  [coordinator |-> IF res.raised = "none"
                                  THEN [coordinator EXCEPT !.pc = "saving"]
                                  ELSE coordinator,
                  data |-> res.data, raised |-> res.raised,
                  writes |-> <<[item_id |-> item_id, new_data |-> new_data]>>]
        ELSE [coordinator |-> coordinator, data |-> data, raised |-> "none",
              writes |-> <<>>]

\* _async_update_data up to the await of storage.async_update_item: the
\* comparison, and the call with the count and the time read before it.
\* writes lists the calls made to storage.async_update_item.
async_update_data(coordinator, dev, data, utcnow) ==
    IF dev.last_seen # coordinator.last_saved
    THEN LET new_data == [count |-> dev.count, last_seen |-> isoformat(utcnow)]
             item_id == coordinator.entry.data.identity_key
             res == async_update_item(data, item_id, new_data)
         IN  [coordinator |-> IF res.raised = "none"
                              THEN [coordinator EXCEPT !.pc = "saving"]
                              ELSE coordinator,
              data |-> res.data, raised |-> res.raised,
              writes |-> <<[item_id |-> item_id, new_data |-> new_data]>>]
    ELSE [coordinator |-> coordinator, data |-> data, raised |-> "none",
          writes |-> <<>>]

\* _async_update_data after the await: self.last_saved = self.device.last_seen
async_update_data_resumed(coordinator, dev) ==
    [coordinator EXCEPT !.pc = "idle", !.last_saved = dev.last_seen]

\* async_setup_entry that always starts from the configured count.
async_setup_entry_configured_count(data, entry, utcnow) ==
    LET identity_key == entry.unique_id
        found == data[identity_key]
        created == [identity_key |-> identity_key, count |-> entry.data.count,
                    last_seen |-> Missing]
        dev == NewDevice(bytes_fromhex(identity_key), entry.data.exponent,
                         entry.data.count, entry.data.window_size, NeverSeen)
    IN  [device |-> dev,
         data |-> IF found = Missing THEN async_create_item(data, created) ELSE data,
         coordinator |-> NewCoordinator(entry, dev),
         creates |-> IF found = Missing THEN <<created>> ELSE <<>>]

\* async_setup_entry(hass, entry): the stored item of the entry's unique id,
\* created from the configured count when there is none; the device built
\* from it; the coordinator and its first refresh.  creates lists the calls
\* made to storage.async_create_item.
async_setup_entry(data, entry, utcnow) ==
    LET identity_key == entry.unique_id
        found == data[identity_key]
        created == [identity_key |-> identity_key, count |-> entry.data.count,
                    last_seen |-> Missing]
        stored_data == IF found = Missing THEN created ELSE found
        data1 == IF found = Missing THEN async_create_item(data, created) ELSE data
        last_seen == IF stored_data.last_seen # Missing
                     THEN fromisoformat(stored_data.last_seen) ELSE NeverSeen
        dev == NewDevice(bytes_fromhex(identity_key), entry.data.exponent,
                         stored_data.count, entry.data.window_size, last_seen)
        first == async_update_data(NewCoordinator(entry, dev), dev, data1, utcnow)
    IN  [device |-> dev,
         data |-> first.data,
         coordinator |-> IF first.coordinator.pc = "saving"
                         THEN async_update_data_resumed(first.coordinator, dev)
                         ELSE first.coordinator,
         creates |-> IF found = Missing THEN <<created>> ELSE <<>>]

\* The last call to the integration, kept in ev: the operation, its
\* argument, the result of the flow or the exception of the update, and the
\* calls it made to the storage collection.
HassCall(op, input, result, creates, writes) ==
    [op |-> op, input |-> input, result |-> result, creates |-> creates,
     writes |-> writes]

NoResult == [type |-> "none"]

InitIntegration ==
    /\ device = NoDevice
    /\ now = 0
    /\ ev = NoCall("init")
    /\ hass = [loaded |-> TRUE,
               entries |-> {},
               data |-> [text \in KeyTexts |-> Missing],
               coordinator |-> NoCoordinator]

\* The user submits the form of the config flow, while no entry is loaded.
StepUser ==
    /\ hass.coordinator.pc = "absent"
    /\ \E user_input \in UserInputs :
          \E res \in {async_step_user(hass.entries, user_input)} :
              /\ hass' = [hass EXCEPT !.entries = res.entries]
              /\ ev' = HassCall("step_user", user_input,
                                [type |-> res.type, reason |-> res.reason,
                                 title |-> res.title, data |-> res.data],
                                <<>>, <<>>)
    /\ UNCHANGED <<device, now>>

\* Home Assistant sets up an entry: after the flow has created it, or when it
\* starts again.  One entry is loaded at a time.
SetupEntry ==
    /\ hass.coordinator.pc = "absent"
    /\ \E entry \in hass.entries :
          \E res \in {async_setup_entry(hass.data, entry, now)} :
              /\ device' = res.device
              /\ hass' = [hass EXCEPT !.data = res.data,
                                      !.coordinator = res.coordinator]
              /\ ev' = HassCall("setup_entry", entry, NoResult, res.creates, <<>>)
    /\ UNCHANGED now

\* async_unload_entry: the coordinator, and the device with it, is dropped;
\* the storage collection keeps its items.
UnloadEntry ==
    /\ hass.coordinator.pc = "idle"
    /\ device' = NoDevice
    /\ hass' = [hass EXCEPT !.coordinator = NoCoordinator]
    /\ ev' = HassCall("unload_entry", hass.coordinator.entry, NoResult, <<>>, <<>>)
    /\ UNCHANGED now

\* The user removes an entry that is not loaded.
RemoveEntry ==
    /\ hass.coordinator.pc = "absent"
    /\ \E entry \in hass.entries :
          /\ hass' = [hass EXCEPT !.entries = hass.entries \ {entry}]
          /\ ev' = HassCall("remove_entry", entry, NoResult, <<>>, <<>>)
    /\ UNCHANGED <<device, now>>

\* The frames of the integration runs, from the first address: the EIDs of
\* the device's counter and of the next one, and the encrypted telemetry of
\* the device's counter.  utcnow() has a resolution of microseconds: no EID
\* frame arrives in the very instant of the last match.
IntegrationPackets(dev) ==
    {Packet(Address1, Data(10, FRAME_EID, 0, BeaconEid(dev.identity_key, dev.exponent, c))) :
        c \in (IF dev.last_seen = now THEN {}
               ELSE {dev.count, Offset(dev.count, 1, dev.exponent)} \cap BeaconCounters(dev))}
    \cup {Packet(Address1, Data(18, FRAME_TLM, 1,
                                BeaconEtlm(dev.identity_key, dev.count, Plaintext1)))}

\* The Bluetooth callback of a loaded entry: update_ble, also while an
\* update of the coordinator awaits the storage collection.
UpdateBle ==
    /\ hass.coordinator.pc # "absent"
    /\ Receive(IntegrationPackets(device))

\* Time passes for a loaded entry: the W + 1 rotation periods after which
\* the stale check presumes the beacon to have moved out of the window.
TickLoaded ==
    /\ hass.coordinator.pc # "absent"
    /\ now + (device.window_size + 1) * Period <= (device.window_size + MaxPeriods) * Period
    /\ now' = now + (device.window_size + 1) * Period
    /\ ev' = NoCall("tick")
    /\ UNCHANGED <<device, hass>>

\* The periodic update of the coordinator begins: _async_update_data runs up
\* to its await, or to its end when there is nothing to save.
UpdateData ==
    /\ hass.coordinator.pc = "idle"
    /\ \E res \in {async_update_data(hass.coordinator, device, hass.data, now)} :
          /\ hass' = [hass EXCEPT !.data = res.data,
                                  !.coordinator = res.coordinator]
          /\ ev' = HassCall("update_data", hass.coordinator.entry,
                            [type |-> res.raised], <<>>, res.writes)
    /\ UNCHANGED <<device, now>>

\* The update resumes after the await and ends.
UpdateDataResumed ==
    /\ hass.coordinator.pc = "saving"
    /\ hass' = [hass EXCEPT
                  !.coordinator = async_update_data_resumed(hass.coordinator, device)]
    /\ ev' = HassCall("update_data_resumed", hass.coordinator.entry, NoResult,
                      <<>>, <<>>)
    /\ UNCHANGED <<device, now>>

NextIntegration ==
    \/ StepUser \/ SetupEntry \/ UnloadEntry \/ RemoveEntry
    \/ UpdateBle \/ TickLoaded \/ UpdateData \/ UpdateDataResumed

SpecIntegration == InitIntegration /\ [][NextIntegration]_vars

----------------------------------------------------------------------------
(* Properties *)

\* A list of 2W+1 entries, each counter 2^K after the one before, modulo 2^32.
WellFormed(dev, eids) ==
    /\ Len(eids) = 2 * dev.window_size + 1
    /\ \A j \in 1..(Len(eids) - 1) :
          eids[j + 1].count = Add32(eids[j].count, Step(dev))

\* The last step was a process_packet call on an EID frame.
EidCall(e) == e.op = "packet" /\ e.type = FRAME_EID

\* C1: in every reachable state the active window has exactly 2W+1 entries,
\* each counter exactly 2^K greater than the previous one modulo 2^32.
C1_ActiveWindowShape == WellFormed(device, device.eids)

\* C2: after an EID frame matched entry i of the window that becomes active,
\* the centre entry's counter is the counter entry i held before the call.
C2_CentreIsMatchedEntry ==
    (EidCall(ev) /\ ev.matched # "none") => Centre(device, device.eids) = ev.hit

\* C3: process_packet raises no exception, for every frame in every state.
C3_NoException == ev.raised = "none"

\* C4: a match at any index of the resync window makes it the active window,
\* empties the resync window, leaves 2W+1 entries centred on the matched
\* entry's counter and sets last_seen to now.
C4_ResyncPromotion ==
    (EidCall(ev) /\ ev.matched = "resync") =>
        /\ device.resync_eids = <<>>
        /\ WellFormed(device, device.eids)
        /\ Centre(device, device.eids) = ev.hit
        /\ device.last_seen = now

C6_ActiveMatchClearsResync ==
    (EidCall(ev) /\ ev.matched = "active") => device.resync_eids = <<>>

\* C7: every EID match, in the active or the resync window, sets last_seen
\* to the current time and address to the address of the matching frame; no
\* other call changes either, so address is always the address of the most
\* recent matching EID frame; and a TLM frame from another address changes
\* nothing.
C7_MatchSetsLastSeenAndAddress ==
    [][/\ ev'.matched # "none" =>
            device'.last_seen = now' /\ device'.address = ev'.address
       /\ ev'.matched = "none" =>
            device'.last_seen = device.last_seen /\ device'.address = device.address
       /\ (ev'.type = FRAME_TLM /\ ev'.address # device.address) => device' = device
      ]_vars

\* A frame from the second address has just matched the resync window, after
\* an earlier match from the first address.
C7_Witness ==
    /\ EidCall(ev) /\ ev.matched = "resync" /\ ev.raised = "none"
    /\ ev.address = Address2
    /\ device.address = Address2
    /\ device.last_seen = now
    /\ now > 0

\* The expected count of the stale check as the specification has it:
\* (window[W].counter + elapsed) with the low K bits cleared, modulo 2^32.
ExpectedCount(dev, now_) ==
    MaskLow(Add32(dev.eids[dev.window_size + 1].count, FromInt(now_ - dev.last_seen)),
            dev.exponent)

\* The stale condition holds for the device at this time.
StaleAt(dev, now_) ==
    /\ dev.last_seen # NeverSeen
    /\ Len(dev.eids) = 2 * dev.window_size + 1
    /\ Gt32(ExpectedCount(dev, now_), dev.eids[Len(dev.eids)].count)

\* C8: when an EID frame is handled with last_seen set and the expected
\* count greater than the last active entry's counter, a resync window
\* centred on the expected count exists after the stale check, and the stale
\* check leaves the active window as it was.
C8_StaleCheckBuildsResyncAtExpected ==
    [][(EidCall(ev') /\ StaleAt(device, now))
         => /\ ev'.stale = ExpectedCount(device, now)
            /\ ev'.matched = "none" => device'.eids = device.eids]_vars

\* C9: in every reachable state the low K bits of the counter are zero.
C9_CounterAligned == Aligned(device.count, device.exponent)

\* An EID frame has moved the counter of a device that was constructed with
\* a count whose low K bits were set.
C9_Witness ==
    /\ EidCall(ev) /\ ev.matched # "none" /\ ev.index # device.window_size
    /\ device.exponent > 0
    /\ device.count = ev.hit
    /\ \E cfg \in Configs :
          /\ cfg[1] = device.exponent
          /\ ~Aligned(cfg[3], cfg[1])
          /\ device.count # MaskLow(cfg[3], cfg[1])

\* C10: in every reachable state the counter is the counter of the centre
\* entry of the active window.
C10_CounterIsCentre == device.count = Centre(device, device.eids)

----------------------------------------------------------------------------
(* Telemetry and frame handling *)

\* The last step was a process_packet call on a TLM frame.
TlmCall(e) == e.op = "packet" /\ e.type = FRAME_TLM

\* C11: a TLM frame from an address other than the stored one, or with a
\* version byte other than 1, leaves every field of the tracker unchanged,
\* also when its ciphertext and tag verify for the device.
C11_TlmFilteredByAddressAndVersion ==
    [][(TlmCall(ev') /\ (ev'.address # device.address \/ ev'.version # 1))
         => device' = device]_vars

\* An encrypted frame whose tag verifies for the device has arrived from an
\* address other than the tracked one, and the device has no telemetry.
C11_Witness ==
    /\ TlmCall(ev) /\ ev.len = 18 /\ ev.version = 1 /\ ev.etlm = "verifies"
    /\ device.address # None /\ ev.address # device.address
    /\ ~device.new_data_available

\* The call handed an encrypted frame of 18 bytes from the tracked address to
\* _process_etlm (dev is the device before or after the call: a TLM frame
\* changes neither address nor counter).
EtlmHandled(e, dev) ==
    TlmCall(e) /\ e.len = 18 /\ e.version = 1 /\ e.address = dev.address

\* The 16 temperature bits read as signed 8.8 fixed point, in 1/256 degree C.
SignedQ8_8(raw) == IF raw >= 32768 THEN raw - 65536 ELSE raw

\* C12: an encrypted frame from the tracked address whose tag verifies sets
\* battery, temperature, advertising_count and uptime to the values of the
\* plaintext, signal_strength to the rssi of the frame and
\* new_data_available to true.
C12_VerifiedEtlmSetsTelemetry ==
    [][(EtlmHandled(ev', device) /\ ev'.etlm = "verifies")
         => LET sent == PlaintextOf(ev'.address)
            IN  /\ device'.battery = sent.batt
                /\ device'.temperature = SignedQ8_8(sent.temp)
                /\ device'.advertising_count = sent.adv
                /\ device'.uptime = sent.uptime
                /\ device'.signal_strength = Rssi(ev'.address)
                /\ device'.new_data_available]_vars

\* C13: an encrypted frame from the tracked address whose tag does not
\* verify changes no field of the tracker.
C13_FailedEtlmChangesNothing ==
    [][(EtlmHandled(ev', device) /\ ev'.etlm = "fails") => device' = device]_vars

\* A frame has failed verification at a device that holds telemetry of an
\* earlier frame.
C13_Witness ==
    /\ EtlmHandled(ev, device) /\ ev.etlm = "fails" /\ ev.raised = "none"
    /\ device.new_data_available
    /\ device.battery = PlaintextOf(device.address).batt

\* C14: the temperature stored from a verified plaintext is its 16
\* temperature bits read as signed 8.8 fixed point: negative for raw values
\* 0x8000..0xFFFF.
C14_TemperatureSigned ==
    (EtlmHandled(ev, device) /\ ev.etlm = "verifies")
        => device.temperature = SignedQ8_8(PlaintextOf(ev.address).temp)

\* C15: an EID frame that is not 10 bytes long, and an encrypted TLM frame
\* from the tracked address that is not 18 bytes long, is dropped: the call
\* returns and no field of the tracker changes.
C15_WrongLengthDropped ==
    [][(\/ EidCall(ev') /\ ev'.len # 10
        \/ /\ TlmCall(ev') /\ ev'.version = 1 /\ ev'.address = device.address
           /\ ev'.len >= 2 /\ ev'.len # 18)
         => device' = device /\ ev'.raised = "none"]_vars

\* C16: a frame whose first byte is 0x00, 0x10 or any value other than 0x20
\* and 0x30 leaves every field of the tracker unchanged.
C16_OtherTypesIgnored ==
    [][(ev'.op = "packet" /\ ev'.len > 0 /\ ev'.type \notin {FRAME_TLM, FRAME_EID})
         => device' = device]_vars

\* A frame of an unknown type has arrived at a device that has matched a
\* frame before and holds a resync window.
C16_Witness ==
    /\ ev.op = "packet" /\ ev.len > 0
    /\ ev.type \notin {FRAME_UID, FRAME_URL, FRAME_TLM, FRAME_EID}
    /\ device.address # None
    /\ device.resync_eids # <<>>

----------------------------------------------------------------------------
(* The window of a device that has never matched *)

\* The counters within W rotation periods of c, by their distance in periods.
Within(dev, c) ==
    [j \in (-dev.window_size)..dev.window_size |-> Offset(c, j, dev.exponent)]

\* The last step was a call, at a device with no last_seen, on the EID a
\* beacon with the device's key broadcasts at some counter.
FirstEid(e) == EidCall(e) /\ e.unseen /\ e.sent # NoCount

\* C17: at a tracker with no last_seen and centre counter c, the EID of
\* counter c + j * 2^K, for j in -W..W, matches the active window at index
\* W + j and the window is recentred on that counter.
C17_InsideWindowMatches ==
    [][FirstEid(ev') =>
         \A j \in (-device.window_size)..device.window_size :
            ev'.sent = Within(device, device.count)[j] =>
               /\ ev'.matched = "active"
               /\ ev'.index = device.window_size + j
               /\ device'.count = ev'.sent
               /\ WellFormed(device', device'.eids)
               /\ Centre(device', device'.eids) = ev'.sent
               /\ device'.last_seen = now']_vars

\* A never seen device has matched the EID of the counter W periods after
\* its own, at the last index 2W, across the 2^32 wrap.
C17_Witness ==
    /\ FirstEid(ev) /\ ev.raised = "none"
    /\ ev.matched = "active" /\ ev.index = 2 * device.window_size
    /\ device.count = ev.sent
    /\ device.window_size > 1
    /\ device.eids[1].count.hi = Limb - 1 /\ ev.sent.hi = 0

\* C18: at a tracker with no last_seen and centre counter c, the EID of a
\* counter more than W periods away from c matches nothing: last_seen stays
\* unset and the window stays centred on c.
C18_OutsideWindowNoMatch ==
    [][(FirstEid(ev') /\
        \A j \in (-device.window_size)..device.window_size :
           ev'.sent # Within(device, device.count)[j])
         => /\ ev'.matched = "none"
            /\ device'.last_seen = NeverSeen
            /\ device' = device]_vars

\* A never seen device has received the EIDs of the counters W + 1 periods
\* before and after its own.
C18_Witness ==
    /\ FirstEid(ev) /\ ev.raised = "none" /\ ev.matched = "none"
    /\ ev.sent \in {Offset(device.count, -(device.window_size + 1), device.exponent),
                    Offset(device.count, device.window_size + 1, device.exponent)}
    /\ device.last_seen = NeverSeen

----------------------------------------------------------------------------
(* Construction *)

\* The counters (c + (j - W) * 2^K) mod 2^32 for j = 0..2W.
WindowCounters(dev, c) ==
    [j \in 1..(2 * dev.window_size + 1) |->
        Offset(c, j - 1 - dev.window_size, dev.exponent)]

\* The counters of a list of entries.
Counts(eids) == [j \in 1..Len(eids) |-> eids[j].count]

\* C19: the window constructed for an aligned centre counter c holds the
\* counters (c + (j - W) * 2^K) mod 2^32, j = 0..2W, also across the 2^32
\* boundary: for c = 0, for c = 2^32 - 2^K, for the counter of the device,
\* in the window the constructor built and in every resync window.
C19_WindowConstruction ==
    /\ \A c \in {U32(0, 0), Offset(U32(0, 0), -1, device.exponent), device.count} :
          Counts(compute_eids(device, c)) = WindowCounters(device, c)
    /\ ev.op = "init" => Counts(device.eids) = WindowCounters(device, device.count)
    /\ (EidCall(ev) /\ device.resync_eids # <<>>)
          => Counts(device.resync_eids) = WindowCounters(device, ev.stale)

\* The stale check of the last call has built a resync window that runs
\* across the 2^32 boundary.
C19_Witness ==
    /\ EidCall(ev) /\ ev.raised = "none" /\ ev.stale # NoCount
    /\ device.resync_eids # <<>>
    /\ device.resync_eids[1].count.hi = Limb - 1
    /\ device.resync_eids[Len(device.resync_eids)].count.hi = 0

\* C20: the constructor does not fail on a counter whose low K bits are
\* set: the counter of the device is that counter with its low K bits
\* cleared, the active window is centred on it, the resync window is empty,
\* address is unset, the telemetry fields are zero and new_data_available is
\* false.
C20_ConstructorMasks ==
    ev.op = "init" =>
        /\ \E cfg \in Configs :
              /\ device.exponent = cfg[1] /\ device.window_size = cfg[2]
              /\ device.count.hi = cfg[3].hi
              /\ device.count.lo % Pow2(cfg[1]) = 0
              /\ cfg[3].lo - device.count.lo \in 0..(Pow2(cfg[1]) - 1)
        /\ WellFormed(device, device.eids)
        /\ Centre(device, device.eids) = device.count
        /\ device.resync_eids = <<>>
        /\ device.address = None
        /\ device.temperature = 0 /\ device.battery = 0
        /\ device.advertising_count = 0 /\ device.uptime = 0
        /\ device.signal_strength = 0
        /\ ~device.new_data_available

\* A device just constructed from a counter whose low K bits were set.
C20_Witness ==
    /\ ev.op = "init"
    /\ device.exponent > 0
    /\ \E cfg \in Configs :
          /\ cfg[1] = device.exponent /\ cfg[3].hi = device.count.hi
          /\ cfg[3].lo # device.count.lo

----------------------------------------------------------------------------
(* Recentring and the stale window *)

\* The EID frame a beacon with the device's key sends at counter c.
EidFrame(dev, address, c) ==
    Packet(address, Data(10, FRAME_EID, 0, BeaconEid(dev.identity_key, dev.exponent, c)))

\* C21: an EID frame that matches the entry at index W leaves the entries
\* of the matched window (the active window, or the resync window the call
\* promotes) and its centre counter as they were, and the same frame
\* processed once more leaves them so again.
C21_CentreMatchIdempotent ==
    [][(EidCall(ev') /\ ev'.matched # "none" /\ ev'.index = device.window_size)
         => /\ ev'.matched = "active" =>
                  device'.eids = device.eids /\ device'.count = device.count
            /\ ev'.matched = "resync" =>
                  device'.eids = compute_eids(device, ev'.stale) /\ device'.count = ev'.stale
            /\ LET again == process_packet(device', EidFrame(device, ev'.address, ev'.hit),
                                           now', "wrap")
               IN  /\ again.raised = "none"
                   /\ again.dev.eids = device'.eids
                   /\ again.dev.count = device'.count]_vars

\* A device that had matched before has matched the centre of its window.
C21_Witness ==
    /\ EidCall(ev) /\ ev.raised = "none"
    /\ ev.matched = "active" /\ ev.index = device.window_size
    /\ ~ev.unseen
    /\ ev.hit = device.count /\ ev.sent = device.count
    /\ device.last_seen = now /\ now > 0

\* C22: when the stale condition holds, the EID of a counter of the active
\* window is still matched against the active window: last_seen becomes now
\* and the counter becomes the counter of the matched active entry.
C22_ActiveMatchDespiteStale ==
    [][(/\ EidCall(ev') /\ StaleAt(device, now)
        /\ ev'.sent # NoCount
        /\ \E j \in 1..Len(device.eids) : device.eids[j].count = ev'.sent)
         => /\ ev'.matched = "active" /\ ev'.raised = "none"
            /\ device'.last_seen = now'
            /\ device'.count = ev'.sent
            /\ Centre(device', device'.eids) = ev'.sent]_vars

\* More than W + 1 periods after its last match a device has matched an
\* entry of its active window, in the call whose stale check built a resync
\* window centred on another counter.
C22_Witness ==
    /\ EidCall(ev) /\ ev.raised = "none" /\ ev.matched = "active"
    /\ ~ev.unseen
    /\ ev.stale # NoCount /\ ev.stale # ev.hit
    /\ device.resync_eids # <<>>
    /\ device.count = ev.hit /\ device.last_seen = now
    /\ now >= (device.window_size + 1) * Period

\* C23: when last_seen is set and the stale condition holds, an EID frame
\* that matches neither window leaves last_seen, the counter and the active
\* window as they were, and a resync window exists afterwards.
C23_StaleNoMatchKeepsActive ==
    [][(EidCall(ev') /\ StaleAt(device, now) /\ ev'.matched = "none")
         => /\ device'.last_seen = device.last_seen
            /\ device'.count = device.count
            /\ device'.eids = device.eids
            /\ device'.resync_eids # <<>>]_vars

\* The EID of a counter of the device's own beacon has matched neither
\* window, more than W + 1 periods after the last match.
C23_Witness ==
    /\ EidCall(ev) /\ ev.len = 10 /\ ev.raised = "none" /\ ev.matched = "none"
    /\ ev.sent # NoCount /\ ev.stale # NoCount
    /\ device.last_seen # NeverSeen
    /\ now - device.last_seen >= (device.window_size + 1) * Period
    /\ device.resync_eids # <<>>

\* C24: while last_seen is unset there is no resync window, and the first
\* EID frame that matches the active window sets last_seen.
C24_NoResyncWhileUnseen ==
    /\ device.last_seen = NeverSeen => device.resync_eids = <<>>
    /\ (EidCall(ev) /\ ev.unseen /\ ev.matched = "active") => device.last_seen = now

\* More than W + 1 periods after its construction a never seen device has
\* received an EID that matched nothing.
C24_Witness ==
    /\ EidCall(ev) /\ ev.len = 10 /\ ev.unseen /\ ev.matched = "none"
    /\ now >= (device.window_size + 1) * Period
    /\ device.last_seen = NeverSeen
    /\ device.resync_eids = <<>>

\* A list after n shifts towards lower counters: n new entries in front,
\* the last n entries gone.
LeftShifted(dev, eids, n) ==
    [j \in 1..Len(eids) |->
        IF j <= n
        THEN LET c == Offset(eids[1].count, j - 1 - n, dev.exponent)
             IN  EidEntry(c, BeaconEid(dev.identity_key, dev.exponent, c))
        ELSE eids[j - n]]

\* A list after n shifts towards higher counters.
RightShifted(dev, eids, n) ==
    [j \in 1..Len(eids) |->
        IF j + n <= Len(eids) THEN eids[j + n]
        ELSE LET c == Offset(eids[Len(eids)].count, j + n - Len(eids), dev.exponent)
             IN  EidEntry(c, BeaconEid(dev.identity_key, dev.exponent, c))]

\* _handle_eid_match, called on any index of the active or of the resync
\* window of a reachable state, returns after W - i shifts to the left when
\* i < W and i - W shifts to the right when i > W, with the matched entry at
\* index W of a list of 2W+1 entries.
HandleEidMatchShifts ==
    \A list \in {device.eids, device.resync_eids} :
        \A i \in 0..(Len(list) - 1) :
            LET W == device.window_size
                res == handle_eid_match([device EXCEPT !.eids = list], i, Address1, now)
            IN  /\ res.raised = "none"
                /\ Len(res.dev.eids) = 2 * W + 1
                /\ res.dev.eids[W + 1] = list[i + 1]
                /\ res.dev.eids = IF i < W THEN LeftShifted(device, list, W - i)
                                  ELSE RightShifted(device, list, i - W)

RecentringShiftsActive ==
    [][(EidCall(ev') /\ ev'.matched # "none" /\
        (ev'.matched = "active" \/ ev'.index >= device.window_size))
         => LET W == device.window_size
                i == ev'.index
                list == IF ev'.matched = "active" THEN device.eids
                        ELSE compute_eids(device, ev'.stale)
            IN  /\ ev'.raised = "none"
                /\ Len(device'.eids) = 2 * W + 1
                /\ device'.eids[W + 1] = list[i + 1]
                /\ device'.eids = IF i < W THEN LeftShifted(device, list, W - i)
                                  ELSE RightShifted(device, list, i - W)]_vars

\* C28: every entry (c, eid) of the active and of the resync window holds
\* the EID that a beacon with the identity key broadcasts at counter c,
\* derived under the temporary key of the upper 16 bits of c.
C28_EntriesDerived ==
    \A list \in {device.eids, device.resync_eids} :
        \A j \in 1..Len(list) :
            list[j].eid = BeaconEid(device.identity_key, device.exponent, list[j].count)

\* A resync window has become the active window and has been shifted to the
\* right, and its entries lie on both sides of a change of the upper 16 bits.
C28_Witness ==
    /\ EidCall(ev) /\ ev.raised = "none"
    /\ ev.matched = "resync" /\ ev.index > device.window_size
    /\ Len(device.eids) = 2 * device.window_size + 1
    /\ device.eids[1].count.hi # device.eids[Len(device.eids)].count.hi

----------------------------------------------------------------------------
(* Telemetry and the counter *)

\* C29: an encrypted frame from the tracked address that a beacon with the
\* identity key built for counter c is accepted if and only if the counter
\* of the tracker is c when the frame is processed: then its telemetry is
\* stored, otherwise no field of the tracker changes.
C29_EtlmAcceptedIffCounterMatches ==
    [][(EtlmHandled(ev', device) /\ ev'.sent # NoCount)
         => LET sent == PlaintextOf(ev'.address)
            IN  /\ (ev'.etlm = "verifies") <=> (ev'.sent = device.count)
                /\ ev'.sent = device.count =>
                      /\ device'.battery = sent.batt
                      /\ device'.advertising_count = sent.adv
                      /\ device'.uptime = sent.uptime
                      /\ device'.new_data_available
                /\ ev'.sent # device.count => device' = device]_vars

\* A tracker that has been recentred on a counter no constructor was given,
\* and holds no telemetry, has rejected the frame its beacon built for the
\* rotation period before.
C29_Witness ==
    /\ EtlmHandled(ev, device) /\ ev.raised = "none"
    /\ ev.sent = Offset(device.count, -1, device.exponent)
    /\ ev.etlm = "fails"
    /\ \A cfg \in Configs : device.count # MaskLow(cfg[3], device.exponent)
    /\ ~device.new_data_available

----------------------------------------------------------------------------
(* The integration *)

\* C25: async_setup_entry builds the tracker from the stored item when the
\* storage collection holds one under the entry's identity key: the stored
\* count and the stored last_seen, not the configured count.  When it holds
\* none it creates an item with the configured count and builds the tracker
\* with that count, last_seen unset and new_data_available false.
C25_SetupFromStorage ==
    [][ev'.op = "setup_entry" =>
         LET entry == ev'.input
             stored == hass.data[entry.unique_id]
             created == [identity_key |-> entry.unique_id,
                         count |-> entry.data.count, last_seen |-> Missing]
         IN  /\ stored # Missing =>
                   /\ device'.count = MaskLow(stored.count, entry.data.exponent)
                   /\ device'.last_seen = IF stored.last_seen = Missing THEN NeverSeen
                                          ELSE stored.last_seen.iso
                   /\ ev'.creates = <<>>
                   /\ hass'.data = hass.data
             /\ stored = Missing =>
                   /\ ev'.creates = <<created>>
                   /\ hass'.data = [hass.data EXCEPT ![entry.unique_id] = created]
                   /\ device'.count = MaskLow(entry.data.count, entry.data.exponent)
                   /\ device'.last_seen = NeverSeen
             /\ ~device'.new_data_available
             /\ device'.identity_key = entry.unique_id.hex
             /\ device'.exponent = entry.data.exponent
             /\ device'.window_size = entry.data.window_size
             /\ WellFormed(device', device'.eids)
             /\ Centre(device', device'.eids) = device'.count
             /\ hass'.coordinator.last_saved = device'.last_seen]_vars

\* An entry has been set up from an item that an earlier update of the
\* coordinator had saved: with a count other than the configured one, and
\* with a last_seen.
C25_Witness ==
    /\ ev.op = "setup_entry" /\ ev.creates = <<>>
    /\ device.last_seen # NeverSeen
    /\ device.count # MaskLow(ev.input.data.count, ev.input.data.exponent)
    /\ device.count = hass.data[ev.input.unique_id].count

\* C26: submitting the form with an identity key (the 16 bytes the text
\* spells) that is already configured aborts the flow with reason
\* already_configured and creates no entry; a new identity key creates
\* exactly one entry, its data the submitted input and its title the name.
C26_FlowIdentifiesByKey ==
    [][ev'.op = "step_user" =>
         LET user_input == ev'.input
             configured == \E entry \in hass.entries :
                              bytes_fromhex(entry.unique_id) =
                                  bytes_fromhex(user_input.identity_key)
         IN  /\ configured =>
                   /\ ev'.result.type = "abort"
                   /\ ev'.result.reason = "already_configured"
                   /\ hass'.entries = hass.entries
             /\ ~configured =>
                   /\ ev'.result.type = "create_entry"
                   /\ ev'.result.title = user_input.name
                   /\ ev'.result.data = user_input
                   /\ \E entry \in hass'.entries \ hass.entries :
                         /\ hass'.entries = hass.entries \cup {entry}
                         /\ entry.data = user_input
                         /\ entry.title = user_input.name]_vars

\* C26 for the identity key as the text that was typed: the flow aborts for
\* a text that is the unique id of an entry and creates one entry otherwise.
FlowIdentifiesByKeyText ==
    [][ev'.op = "step_user" =>
         LET user_input == ev'.input
             configured == \E entry \in hass.entries :
                              entry.unique_id = user_input.identity_key
         IN  /\ configured =>
                   /\ ev'.result.type = "abort"
                   /\ ev'.result.reason = "already_configured"
                   /\ hass'.entries = hass.entries
             /\ ~configured =>
                   /\ ev'.result.type = "create_entry"
                   /\ ev'.result.title = user_input.name
                   /\ ev'.result.data = user_input
                   /\ \E entry \in hass'.entries \ hass.entries :
                         /\ hass'.entries = hass.entries \cup {entry}
                         /\ entry.data = user_input
                         /\ entry.title = user_input.name]_vars

\* C30: an update of the coordinator calls storage.async_update_item, with
\* the count of the device, if and only if device.last_seen differs from
\* last_saved when the update begins; when they are equal the storage
\* collection is left as it was; and when an update has ended last_saved
\* equals device.last_seen.
C30_UpdateWritesIffLastSeenChanged ==
    [][/\ ev'.op = "update_data" =>
            LET differs == device.last_seen # hass.coordinator.last_saved
                item_id == hass.coordinator.entry.data.identity_key
            IN  /\ differs <=> ev'.writes # <<>>
                /\ differs =>
                      /\ Len(ev'.writes) = 1
                      /\ ev'.writes[1].item_id = item_id
                      /\ ev'.writes[1].new_data.count = device.count
                      /\ ev'.result.type = "none"
                      /\ hass'.data[item_id].count = device.count
                /\ ~differs => hass'.data = hass.data
       /\ (/\ ev'.op \in {"update_data", "update_data_resumed"}
           /\ hass'.coordinator.pc = "idle")
            => hass'.coordinator.last_saved = device'.last_seen]_vars

\* An update that saved has ended, a frame having matched while it awaited
\* the storage collection.
C30_Witness ==
    /\ ev.op = "update_data_resumed"
    /\ hass.coordinator.pc = "idle"
    /\ device.last_seen # NeverSeen
    /\ hass.coordinator.last_saved = device.last_seen
    /\ hass.data[hass.coordinator.entry.unique_id].last_seen # Missing
    /\ hass.data[hass.coordinator.entry.unique_id].count # device.count

\* C31: the item the coordinator saves after an EID match holds the count of
\* the device together with the last_seen of the device, the time of the
\* last match.
C31_SavedLastSeenIsMatchTime ==
    [][(ev'.op = "update_data" /\ ev'.writes # <<>>)
         => /\ ev'.writes[1].new_data.count = device.count
            /\ ev'.writes[1].new_data.last_seen = isoformat(device.last_seen)]_vars

\* C31 for the count alone: every save holds the count of the device.
SavedCountIsDeviceCount ==
    [][(ev'.op = "update_data" /\ ev'.writes # <<>>)
         => ev'.writes[1].new_data.count = device.count]_vars

\* C32: whenever the coordinator is idle with last_saved equal to
\* device.last_seen after at least one save, the stored count equals the
\* count of the device, also when update_ble matched a frame while an update
\* awaited the storage collection.
C32_NoCounterLostToInterleaving ==
    (/\ hass.coordinator.pc = "idle"
     /\ hass.coordinator.last_saved = device.last_seen
     /\ hass.data[hass.coordinator.entry.unique_id].last_seen # Missing)
        => hass.data[hass.coordinator.entry.unique_id].count = device.count

\* C33: when last_seen is set and fewer than 2^K seconds have passed since
\* it, handling an EID frame builds no resync window: the resync window after
\* the stale check is the one before the call, for every aligned centre, also
\* when the active window runs across the 2^32 boundary.
C33_NoResyncWithinPeriod ==
    [][(/\ EidCall(ev')
        /\ device.last_seen # NeverSeen
        /\ now - device.last_seen < Period
        /\ WellFormed(device, device.eids)
        /\ Aligned(Centre(device, device.eids), device.exponent))
         => ev'.stale = Centre(device, device.resync_eids)]_vars

\* C33 for the active windows that do not run across the 2^32 boundary.
NoResyncWithinPeriodBelowWrap ==
    [][(/\ EidCall(ev')
        /\ device.last_seen # NeverSeen
        /\ now - device.last_seen < Period
        /\ WellFormed(device, device.eids)
        /\ Aligned(Centre(device, device.eids), device.exponent)
        /\ ~Gt32(Centre(device, device.eids), device.eids[Len(device.eids)].count))
         => ev'.stale = Centre(device, device.resync_eids)]_vars

\* The counters at most W rotation steps from a counter.
WithinWindow(dev, c) ==
    {Offset(c, j, dev.exponent) : j \in (-dev.window_size)..dev.window_size}

\* C34: tracking continuity, as its inductive step.  A tracker whose well
\* formed active window is centred on its counter, the counter matched last,
\* receives the EID of a beacon counter at most W rotation steps from it:
\* the frame matches, no exception is raised, the tracker's counter is the
\* frame's counter afterwards and the active window is again well formed and
\* centred on it - whatever time has passed, across the 2^32 wrap and across
\* temporary-key epochs.
C34_TrackingContinuity ==
    [][(/\ EidCall(ev') /\ ev'.len = 10
        /\ WellFormed(device, device.eids)
        /\ Centre(device, device.eids) = device.count
        /\ ev'.sent \in WithinWindow(device, device.count))
         => /\ ev'.matched = "active" /\ ev'.raised = "none"
            /\ ev'.hit = ev'.sent
            /\ device'.count = ev'.sent
            /\ device'.last_seen = now'
            /\ WellFormed(device', device'.eids)
            /\ Centre(device', device'.eids) = ev'.sent]_vars

\* A device seen before has followed its beacon W rotation steps forward
\* across the 2^32 boundary, into another temporary-key epoch, in a call
\* whose stale check had built a resync window around another counter.
C34_Witness ==
    /\ EidCall(ev) /\ ev.raised = "none" /\ ev.matched = "active"
    /\ ~ev.unseen
    /\ ev.index = 2 * device.window_size
    /\ ev.stale # NoCount /\ ev.stale # ev.sent
    /\ device.count = ev.sent
    /\ device.eids[1].count.hi = Limb - 1 /\ device.count.hi = 0

\* The telemetry of a device and its flag.
Telemetry(dev) ==
    <<dev.temperature, dev.battery, dev.advertising_count, dev.uptime,
      dev.signal_strength, dev.new_data_available>>

\* C35: no telemetry is accepted before the first EID match.  While address
\* is unset every TLM frame, also one whose tag verifies for the device's key
\* and counter, leaves the telemetry fields and new_data_available as they
\* were, and a device whose address is unset has the telemetry of its
\* construction: zeros, and new_data_available false.
C35_NoTelemetryBeforeFirstMatch ==
    [][/\ (TlmCall(ev') /\ device.address = None)
            => Telemetry(device') = Telemetry(device)
       /\ device'.address = None
            => Telemetry(device') = <<0, 0, 0, 0, 0, FALSE>>]_vars

\* A device that never matched an EID has received, as version 1, an
\* encrypted frame whose tag verifies for its key and counter.
C35_Witness ==
    /\ TlmCall(ev) /\ ev.len = 18 /\ ev.version = 1 /\ ev.etlm = "verifies"
    /\ ev.raised = "none"
    /\ device.address = None /\ device.last_seen = NeverSeen
    /\ ~device.new_data_available

\* The state the EID handling keeps.
Tracking(dev) ==
    <<dev.count, dev.eids, dev.resync_eids, dev.last_seen, dev.address>>

\* C36: EID handling and ETLM handling touch disjoint state.  Handling an
\* EID frame, matched or not, leaves temperature, battery,
\* advertising_count, uptime, signal_strength and new_data_available as they
\* were; handling a TLM frame, accepted or not, leaves the counter, the
\* active window, the resync window, last_seen and address as they were.
C36_DisjointState ==
    [][/\ EidCall(ev') => Telemetry(device') = Telemetry(device)
       /\ TlmCall(ev') => Tracking(device') = Tracking(device)]_vars

\* A device that holds the telemetry of an accepted frame has matched an EID
\* frame and keeps that telemetry.
C36_Witness ==
    /\ EidCall(ev) /\ ev.matched # "none" /\ ev.raised = "none"
    /\ device.last_seen = now
    /\ device.new_data_available /\ device.battery # 0

\* A device that matched an EID before has accepted an encrypted frame.
TlmAcceptedAfterMatch ==
    /\ TlmCall(ev) /\ ev.etlm = "verifies" /\ ev.address = device.address
    /\ ev.version = 1 /\ device.new_data_available
    /\ device.last_seen # NeverSeen

\* C37: new_data_available is monotone within the tracker and the
\* coordinator.  It is false in the device a set-up constructs; it becomes
\* true only in a process_packet call on a TLM frame whose tag verifies; and
\* once true no process_packet call and no update of the coordinator, before
\* or after its await, resets it.
C37_NewDataMonotone ==
    [][/\ (ev'.op = "setup_entry" /\ device' # NoDevice)
            => ~device'.new_data_available
       /\ (device # NoDevice /\ device' # NoDevice /\ ev'.op # "setup_entry")
            => /\ device.new_data_available => device'.new_data_available
               /\ (~device.new_data_available /\ device'.new_data_available)
                     => (TlmCall(ev') /\ ev'.etlm = "verifies")]_vars

\* An update of the coordinator has saved the counter of a device that holds
\* accepted telemetry, and the flag is still set after the await.
C37_Witness ==
    /\ ev.op = "update_data_resumed"
    /\ device # NoDevice /\ device.new_data_available
    /\ hass.coordinator.pc = "idle"
    /\ hass.coordinator.last_saved = device.last_seen

\* A device that holds accepted telemetry has matched an EID frame and
\* accepted a second encrypted frame since.
NewDataKeptAcrossFrames ==
    /\ TlmCall(ev) /\ ev.etlm = "verifies"
    /\ device # NoDevice /\ device.new_data_available
    /\ device.last_seen = now /\ now > 0

\* C38: in every reachable state the resync window is empty or well formed:
\* 2W+1 entries, each counter exactly 2^K greater than the previous one
\* modulo 2^32, and a centre counter whose low K bits are zero.
C38_ResyncWindowShape ==
    device.resync_eids # <<>>
        => /\ WellFormed(device, device.resync_eids)
           /\ Aligned(Centre(device, device.resync_eids), device.exponent)

\* A time that is no multiple of the rotation period after its last match,
\* a device has received an EID that matched neither window, and holds the
\* resync window its stale check built around a counter other than its own.
C38_Witness ==
    /\ EidCall(ev) /\ ev.len = 10 /\ ev.matched = "none" /\ ev.raised = "none"
    /\ device.last_seen # NeverSeen
    /\ (now - device.last_seen) % Period # 0
    /\ device.resync_eids # <<>>
    /\ Centre(device, device.resync_eids) = ev.stale
    /\ ev.stale # device.count

\* A match in the resync window has emptied it.
ResyncEmptiedByMatch ==
    /\ EidCall(ev) /\ ev.matched = "resync" /\ ev.raised = "none"
    /\ device.resync_eids = <<>>

====
